---- MODULE Spec2Model ----
(***************************************************************************)
(* A model of the expression parser: the tokeniser (src/src/tokeniser.rs), *)
(* the recursive-descent parser (src/src/parser.rs), the evaluation of the *)
(* syntax tree (src/src/ast.rs) and the calls the shell makes on them      *)
(* (src/src/main.rs).                                                      *)
(*                                                                         *)
(* A String is a sequence of characters, a character a one-character       *)
(* string; two characters outside ASCII are written by name.  Option<T> is *)
(* a sequence of length 0 (None) or 1 (Some).  Result<T, String> is a      *)
(* record with a field ok; an error message is a record of the values its  *)
(* format string prints.                                                   *)
(***************************************************************************)
EXTENDS Integers, Sequences, FiniteSets, TLC

VARIABLES
    parser,        \* the Parser the caller owns: its tokeniser and lookahead
    history,       \* the caller's last two calls on the parser
    result,        \* what the last call returned: <<>> or <<Result>>
    answer,        \* what evaluate() gave for the last tree: <<>> or <<value>>
    tokeniser,     \* a Tokeniser used on its own
    token_result   \* what its last next_token() returned: <<>> or <<Result>>

vars == <<parser, history, result, answer, tokeniser, token_result>>

----------------------------------------------------------------------------
(* Characters *)

\* The sentinel current_char gives past the end of the source: '\0'.
NUL == "NUL"

\* U+00BE, VULGAR FRACTION THREE QUARTERS: general category No.
ThreeQuarters == "U+00BE"

AsciiDigits == {"0", "1", "2", "3", "4", "5", "6", "7", "8", "9"}

\* char::is_numeric: the general categories Nd, Nl and No.
is_numeric(c) == c \in AsciiDigits \cup {ThreeQuarters}

\* char::is_whitespace
is_whitespace(c) == c \in {" ", "\n", "\t"}

None == << >>
Some(v) == <<v>>

----------------------------------------------------------------------------
(* tokeniser.rs *)

Token(kind, value, pos) == [kind |-> kind, value |-> value, pos |-> pos]

Token_empty == Token("Empty", None, 0)

Tokeniser_new(source) == [source |-> source, char_pos |-> 0]

current_char(t) ==
    IF t.char_pos < Len(t.source) THEN t.source[t.char_pos + 1] ELSE NUL

\* The tokeniser after next_char; the character it returns is
\* current_char of that tokeniser.
next_char_twice(t) == [t EXCEPT !.char_pos = @ + 2]

next_char(t) == [t EXCEPT !.char_pos = @ + 1]

RECURSIVE number_sequence_loop(_, _)
number_sequence_loop(t, number_string) ==
    IF is_numeric(current_char(t))
    THEN number_sequence_loop(next_char(t), Append(number_string, current_char(t)))
    ELSE [t |-> t, s |-> number_string]

number_sequence(t) == number_sequence_loop(t, << >>)

RECURSIVE skip_whitespace(_)
skip_whitespace(t) ==
    IF is_whitespace(current_char(t)) THEN skip_whitespace(next_char(t)) ELSE t

single_char_kind(c) ==
    CASE c = "+" -> "Add"
      [] c = "-" -> "Sub"
      [] c = "/" -> "Div"
      [] c = "*" -> "Mult"
      [] c = "(" -> "LParen"
      [] c = ")" -> "RParen"

UnfinishedFloatLiteral(number_sequence_, char_pos) ==
    [err |-> "Unfinished FloatLiteral", literal |-> number_sequence_, position |-> char_pos]

UnrecognisedChar(c, char_pos) ==
    [err |-> "Unrecognised char", char |-> c, position |-> char_pos]

number_token(t) ==
    LET starting_char_pos == t.char_pos
        first == number_sequence(t)
    IN  IF current_char(first.t) = "."
        THEN LET with_point == Append(first.s, ".")
                 second == number_sequence(next_char(first.t))
             IN  IF Len(second.s) = 0
                 THEN [ok |-> FALSE, t |-> second.t,
                       msg |-> UnfinishedFloatLiteral(with_point, second.t.char_pos)]
                 ELSE [ok |-> TRUE, t |-> second.t,
                       token |-> Token("FloatLiteral", Some(with_point \o second.s),
                                       starting_char_pos)]
        ELSE [ok |-> TRUE, t |-> first.t,
              token |-> Token("IntLiteral", Some(first.s), starting_char_pos)]

single_char_token_no_undo(t) ==
    LET after == next_char(t)
    IN  [ok |-> TRUE, t |-> after,
         token |-> Token(single_char_kind(current_char(t)), None, after.char_pos)]

single_char_token(t) ==
    LET after == next_char(t)
    IN  [ok |-> TRUE, t |-> after,
         token |-> Token(single_char_kind(current_char(t)), None, after.char_pos - 1)]

next_token(t0) ==
    LET t == skip_whitespace(t0)
        c == current_char(t)
    IN  CASE c = NUL -> [ok |-> TRUE, t |-> t, token |-> Token("EOF", None, t.char_pos)]
          [] c # NUL /\ is_numeric(c) -> number_token(t)
          [] c \in {"+", "-", "/", "*", "(", ")"} -> single_char_token(t)
          [] OTHER -> [ok |-> FALSE, t |-> t, msg |-> UnrecognisedChar(c, t.char_pos)]

----------------------------------------------------------------------------
(* ast.rs: the nodes *)

BinOp(left, right, op) ==
    [type |-> "BinOp", left |-> left, right |-> right, op |-> op]

UnaryOp(right, op) == [type |-> "UnaryOp", right |-> right, op |-> op]

IntLiteral(value) == [type |-> "IntLiteral", value |-> value]

FloatLiteral(value) == [type |-> "FloatLiteral", value |-> value]

----------------------------------------------------------------------------
(* parser.rs *)

Parser_new(source) ==
    [tokeniser |-> Tokeniser_new(source), current_token |-> Token_empty]

set_source_keep_cursor(p, source) == [p EXCEPT !.tokeniser.source = source]

set_source(p, source) == [p EXCEPT !.tokeniser = Tokeniser_new(source)]

ExpectedKind(expected_token_kind, kind) ==
    [err |-> "Expected kind", expected |-> expected_token_kind, got |-> kind]

UnexpectedToken(current_token, char_pos) ==
    [err |-> "Unexpected token", token |-> current_token, pos |-> char_pos]

\* The expect() of a literal token's value failed: a panic, not an Err.
ValueIsNone == [err |-> "panic"]

Ok(p, node) == [ok |-> TRUE, p |-> p, node |-> node]

Err(p, msg) == [ok |-> FALSE, p |-> p, msg |-> msg]

advance(p, r) ==
    IF r.ok
    THEN [ok |-> TRUE, p |-> [tokeniser |-> r.t, current_token |-> r.token]]
    ELSE Err([p EXCEPT !.tokeniser = r.t], r.msg)

eat_unchecked(p, expected_token_kind) == advance(p, next_token(p.tokeniser))

eat(p, expected_token_kind) ==
    IF p.current_token.kind # expected_token_kind
    THEN Err(p, ExpectedKind(expected_token_kind, p.current_token.kind))
    ELSE advance(p, next_token(p.tokeniser))

RECURSIVE entity(_), expr(_), expr_loop(_, _), mult_expr(_), mult_expr_loop(_, _)

(***************************************************************************)
(* The ? operator: where the step before returned Err, that Err (with the  *)
(* parser as the failed call left it) is what the function returns; where  *)
(* it returned Ok, the function goes on from the parser it left.           *)
(***************************************************************************)
then_entity(r) == IF r.ok THEN entity(r.p) ELSE r

then_mult_expr(r) == IF r.ok THEN mult_expr(r.p) ELSE r

then_expr(r) == IF r.ok THEN expr(r.p) ELSE r

then_node(r, node) == IF r.ok THEN Ok(r.p, node) ELSE r

then_unary(right, op) == IF right.ok THEN Ok(right.p, UnaryOp(right.node, op)) ELSE right

then_rparen(inner) ==
    IF inner.ok THEN then_node(eat(inner.p, "RParen"), inner.node) ELSE inner

then_right_operand(node, rest, op) ==
    IF rest.ok THEN Ok(rest.p, BinOp(node, rest.node, op)) ELSE rest

\* expr's loop taking the whole rest of the chain as the right operand.
then_expr_loop_right(node, right, op) ==
    IF right.ok THEN then_right_operand(node, expr_loop(right.p, right.node), op)
    ELSE right

then_expr_loop(node, right, op) ==
    IF right.ok THEN expr_loop(right.p, BinOp(node, right.node, op)) ELSE right

then_mult_expr_loop(node, right, op) ==
    IF right.ok THEN mult_expr_loop(right.p, BinOp(node, right.node, op)) ELSE right

expr_from(first) == IF first.ok THEN expr_loop(first.p, first.node) ELSE first

mult_expr_from(first) == IF first.ok THEN mult_expr_loop(first.p, first.node) ELSE first

literal(p, kind) ==
    IF p.current_token.value = None
    THEN Err(p, ValueIsNone)
    ELSE then_node(eat(p, kind),
                   IF kind = "IntLiteral"
                   THEN IntLiteral(p.current_token.value[1])
                   ELSE FloatLiteral(p.current_token.value[1]))

entity(p) ==
    CASE p.current_token.kind \in {"IntLiteral", "FloatLiteral"} ->
            literal(p, p.current_token.kind)
      [] p.current_token.kind = "Sub" ->
            then_unary(then_entity(eat(p, "Sub")), "Sub")
      [] p.current_token.kind = "LParen" ->
            then_rparen(then_expr(eat(p, "LParen")))
      [] OTHER ->
            Err(p, UnexpectedToken(p.current_token, p.tokeniser.char_pos))

expr(p) == expr_from(mult_expr(p))

expr_loop(p, node) ==
    IF p.current_token.kind \in {"Add", "Sub"}
    THEN then_expr_loop(node, then_mult_expr(eat(p, p.current_token.kind)),
                        p.current_token.kind)
    ELSE Ok(p, node)

mult_expr(p) == mult_expr_from(entity(p))

\* mult_expr's loop taking the operators of both tiers.
mult_expr_loop_flat(p, node) ==
    IF p.current_token.kind \in {"Mult", "Div", "Add", "Sub"}
    THEN then_mult_expr_loop(node, then_entity(eat(p, p.current_token.kind)),
                             p.current_token.kind)
    ELSE Ok(p, node)

mult_expr_loop(p, node) ==
    IF p.current_token.kind \in {"Mult", "Div"}
    THEN then_mult_expr_loop(node, then_entity(eat(p, p.current_token.kind)),
                             p.current_token.kind)
    ELSE Ok(p, node)

parse(p) == then_expr(advance(p, next_token(p.tokeniser)))

----------------------------------------------------------------------------
(* ast.rs: evaluate *)

(***************************************************************************)
(* An f32 is a signed fraction n/d in lowest terms (zero keeps its sign),  *)
(* an infinity, or NaN.  exact says that no operation so far had to round: *)
(* the fraction then is the f32 itself.  Where rounding happened the       *)
(* fraction is the unrounded value.  A panic (unwrap on a failed parse) is *)
(* the value Panic.                                                        *)
(***************************************************************************)
Panic == [k |-> "panic"]

NaN == [k |-> "nan"]

Inf(sign) == [k |-> "inf", sign |-> sign]

RECURSIVE GCD(_, _)
GCD(a, b) == IF b = 0 THEN a ELSE GCD(b, a % b)

RECURSIVE IsPowerOfTwo(_)
IsPowerOfTwo(d) == d = 1 \/ (d % 2 = 0 /\ IsPowerOfTwo(d \div 2))

\* An f32 holds 24 bits of mantissa.
Representable(n, d) == IsPowerOfTwo(d) /\ n < 2 ^ 24

Num(sign, n, d, exact) ==
    LET g == IF n = 0 THEN d ELSE GCD(n, d)
    IN  [k |-> "num", sign |-> sign, n |-> n \div g, d |-> d \div g,
         exact |-> exact /\ Representable(n \div g, d \div g)]

DigitValue(c) ==
    CASE c = "0" -> 0 [] c = "1" -> 1 [] c = "2" -> 2 [] c = "3" -> 3
      [] c = "4" -> 4 [] c = "5" -> 5 [] c = "6" -> 6 [] c = "7" -> 7
      [] c = "8" -> 8 [] c = "9" -> 9

RECURSIVE Decimal(_, _, _, _)
\* The digits of value from index i on, read into the fraction n/d.
Decimal(value, i, n, d) ==
    IF i > Len(value) THEN Num(1, n, d, TRUE)
    ELSE IF value[i] = "." THEN Decimal(value, i + 1, n, 1)
    ELSE Decimal(value, i + 1, 10 * n + DigitValue(value[i]),
                 IF \E j \in 1..(i - 1) : value[j] = "." THEN 10 * d ELSE d)

\* str::parse::<f32>().unwrap() on a text of numeric characters and points:
\* f32's FromStr takes ASCII digits with at most one point among them.
parse_f32_unwrap(value) ==
    IF /\ \A i \in 1..Len(value) : value[i] \in AsciiDigits \cup {"."}
       /\ Cardinality({i \in 1..Len(value) : value[i] = "."}) <= 1
       /\ \E i \in 1..Len(value) : value[i] \in AsciiDigits
    THEN Decimal(value, 1, 0, 1)
    ELSE Panic

Negate(a) ==
    CASE a.k = "num" -> [a EXCEPT !.sign = -@]
      [] a.k = "inf" -> Inf(-a.sign)
      [] OTHER -> a

AddF32(a, b) ==
    CASE a.k = "panic" \/ b.k = "panic" -> Panic
      [] a.k = "nan" \/ b.k = "nan" -> NaN
      [] a.k = "inf" /\ b.k = "inf" -> IF a.sign = b.sign THEN a ELSE NaN
      [] a.k = "inf" /\ b.k = "num" -> a
      [] a.k = "num" /\ b.k = "inf" -> b
      [] OTHER ->
            LET sum == a.sign * a.n * b.d + b.sign * b.n * a.d
            IN  IF sum = 0
                THEN Num(IF a.sign = -1 /\ b.sign = -1 THEN -1 ELSE 1, 0, 1,
                         a.exact /\ b.exact)
                ELSE Num(IF sum < 0 THEN -1 ELSE 1, IF sum < 0 THEN -sum ELSE sum,
                         a.d * b.d, a.exact /\ b.exact)

SubF32(a, b) == AddF32(a, IF b.k = "panic" THEN b ELSE Negate(b))

MulF32(a, b) ==
    CASE a.k = "panic" \/ b.k = "panic" -> Panic
      [] a.k = "nan" \/ b.k = "nan" -> NaN
      [] a.k = "inf" /\ b.k = "inf" -> Inf(a.sign * b.sign)
      [] a.k = "inf" /\ b.k = "num" -> IF b.n = 0 THEN NaN ELSE Inf(a.sign * b.sign)
      [] a.k = "num" /\ b.k = "inf" -> IF a.n = 0 THEN NaN ELSE Inf(a.sign * b.sign)
      [] OTHER -> Num(a.sign * b.sign, a.n * b.n, a.d * b.d, a.exact /\ b.exact)

DivF32(a, b) ==
    CASE a.k = "panic" \/ b.k = "panic" -> Panic
      [] a.k = "nan" \/ b.k = "nan" -> NaN
      [] a.k = "inf" /\ b.k = "inf" -> NaN
      [] a.k = "inf" /\ b.k = "num" -> Inf(a.sign * b.sign)
      [] a.k = "num" /\ b.k = "inf" -> Num(a.sign * b.sign, 0, 1, a.exact)
      [] OTHER ->
            IF b.n = 0
            THEN IF a.n = 0 THEN NaN ELSE Inf(a.sign * b.sign)
            ELSE Num(a.sign * b.sign, a.n * b.d, a.d * b.n, a.exact /\ b.exact)

RECURSIVE evaluate(_)
evaluate(node) ==
    CASE node.type = "BinOp" ->
            LET l == evaluate(node.left)
                r == evaluate(node.right)
            IN  (CASE node.op = "Add" -> AddF32(l, r)
                   [] node.op = "Sub" -> SubF32(l, r)
                   [] node.op = "Div" -> DivF32(l, r)
                   [] node.op = "Mult" -> MulF32(l, r))
      [] node.type = "UnaryOp" ->
            LET operand == evaluate(node.right)
            IN  IF node.op = "Sub" /\ operand.k # "panic" THEN Negate(operand)
                ELSE operand
      [] node.type \in {"IntLiteral", "FloatLiteral"} -> parse_f32_unwrap(node.value)

----------------------------------------------------------------------------
(* The calls of main.rs on the parser, and of a caller on a tokeniser *)

Called(call) == <<history[Len(history)], call>>

\* The process is gone once evaluate() has panicked.
Running == answer # <<Panic>>

\* What parse() hands back to its caller: the Ok tree or the Err message.
Returned(r) == IF r.ok THEN [ok |-> TRUE, node |-> r.node] ELSE [ok |-> FALSE, msg |-> r.msg]

SetSource(source) ==
    /\ Running
    /\ parser' = set_source(parser, source)
    /\ history' = Called("set_source")
    /\ result' = << >>
    /\ answer' = << >>
    /\ UNCHANGED <<tokeniser, token_result>>

Parse ==
    /\ Running
    /\ LET r == parse(parser)
       IN  /\ parser' = r.p
           /\ result' = <<Returned(r)>>
           /\ answer' = IF ~r.ok /\ r.msg.err = "panic" THEN <<Panic>> ELSE << >>
    /\ history' = Called("parse")
    /\ UNCHANGED <<tokeniser, token_result>>

\* Parser::new(source).parse(): the first parse of a new parser.
ParseNew ==
    /\ history = <<"new">>
    /\ Parse

Evaluate ==
    /\ Running
    /\ history[Len(history)] = "parse"
    /\ result # << >> /\ result[1].ok
    /\ answer' = <<evaluate(result[1].node)>>
    /\ history' = Called("evaluate")
    /\ UNCHANGED <<parser, result, tokeniser, token_result>>

NextToken ==
    /\ LET r == next_token(tokeniser)
       IN  /\ tokeniser' = r.t
           /\ token_result' = <<IF r.ok THEN [ok |-> TRUE, token |-> r.token]
                                ELSE [ok |-> FALSE, msg |-> r.msg]>>
    /\ UNCHANGED <<parser, history, result, answer>>

----------------------------------------------------------------------------
(* The inputs *)

\* The longest line given to a parser that is used once.
MaxLen == 4

\* The longest line given to a parser that is used again.
MaxReplLen == 2

\* The longest source given to a tokeniser used on its own.
MaxTokLen == 4

\* The most operators in a generated sentence of the grammar.
MaxOps == 2

\* The most operands in a generated chain of one tier.
MaxChain == 4

RECURSIVE Strings(_, _)
\* The strings of exactly n characters of alphabet.
Strings(alphabet, n) ==
    IF n = 0 THEN {<< >>}
    ELSE {Append(s, c) : s \in Strings(alphabet, n - 1), c \in alphabet}

StringsUpTo(alphabet, n) == UNION {Strings(alphabet, k) : k \in 0..n}

Alphabet == {"1", ".", "+", "-", "*", "(", ")", " ", ThreeQuarters}

ReplAlphabet == {"1", "-", "(", ")", "."}

TokAlphabet == {"1", ".", "-", " ", "&", ThreeQuarters, NUL}

Operands == {"2", "3"}

OpChar(op) ==
    CASE op = "Add" -> "+" [] op = "Sub" -> "-" [] op = "Mult" -> "*" [] op = "Div" -> "/"

Tier(op) == IF op \in {"Add", "Sub"} THEN 1 ELSE 2

\* The level of the grammar a tree is a sentence of: 1 expr, 2 mult_expr,
\* 3 entity.
Level(tree) == IF tree.type = "BinOp" THEN Tier(tree.op) ELSE 3

RECURSIVE Unparse(_, _)
(***************************************************************************)
(* The text of a tree where a sentence of the given level is wanted, with  *)
(* parentheses only where the rules of precedence ask for them: around a   *)
(* looser operation under a tighter one, around the right operand of an    *)
(* operation of the same tier, and around any binary operation under a     *)
(* unary minus.                                                            *)
(***************************************************************************)
Unparse(tree, level) ==
    IF Level(tree) < level THEN <<"(">> \o Unparse(tree, 1) \o <<")">>
    ELSE CASE tree.type = "BinOp" ->
                Unparse(tree.left, Tier(tree.op)) \o <<OpChar(tree.op)>>
                    \o Unparse(tree.right, Tier(tree.op) + 1)
           [] tree.type = "UnaryOp" -> <<"-">> \o Unparse(tree.right, 3)
           [] OTHER -> tree.value

RECURSIVE TreesOf(_)
\* The trees of exactly n operations over the operands.
TreesOf(n) ==
    IF n = 0 THEN {IntLiteral(<<c>>) : c \in Operands}
    ELSE {UnaryOp(right, "Sub") : right \in TreesOf(n - 1)}
         \cup UNION {{BinOp(left, right, op) :
                        left \in TreesOf(i), right \in TreesOf(n - 1 - i),
                        op \in {"Add", "Sub", "Mult", "Div"}} : i \in 0..(n - 1)}

Trees == UNION {TreesOf(n) : n \in 0..MaxOps}

GrammarSources == {Unparse(tree, 1) : tree \in Trees}

RECURSIVE Chains(_, _)
\* The chains of n operands joined by the operators of one tier.
Chains(ops, n) ==
    IF n = 1 THEN {<<c>> : c \in Operands}
    ELSE {chain \o <<op, c>> : chain \in Chains(ops, n - 1), op \in ops, c \in Operands}

ChainSources ==
    UNION {Chains({"+", "-"}, n) \cup Chains({"*", "/"}, n) : n \in 2..MaxChain}

ExampleSources ==
    { <<"2", " ", "+", " ", "3", " ", "*", " ", "4">>,
      <<"(", "2", " ", "+", " ", "3", ")", " ", "*", " ", "4">>,
      <<"8", " ", "-", " ", "3", " ", "-", " ", "2">>,
      <<"-", "-", "3">>,
      <<"-", "2", " ", "*", " ", "3">>,
      <<"(", "1", " ", "+", " ", "2">>,
      <<"3", ".", "1", "4">>,
      <<"1", " ", "/", " ", "0">>,
      <<"1", " ", "2", "\n">> }

ParseSources ==
    StringsUpTo(Alphabet, MaxLen) \cup GrammarSources \cup ChainSources \cup ExampleSources

ReplSources == StringsUpTo(ReplAlphabet, MaxReplLen)

TokSources == StringsUpTo(TokAlphabet, MaxTokLen)

----------------------------------------------------------------------------
(* The specifications *)

InitWith(parsers, tokenisers) ==
    /\ parser \in parsers
    /\ history = <<"new">>
    /\ result = << >>
    /\ answer = << >>
    /\ tokeniser \in tokenisers
    /\ token_result = << >>

\* One parser used for line after line, as main does, in any order of calls.
Init == InitWith({Parser_new(source) : source \in ReplSources}, {Tokeniser_new(<< >>)})

Next ==
    \/ \E source \in ReplSources : SetSource(source)
    \/ Parse
    \/ Evaluate

Spec == Init /\ [][Next]_vars

\* A new parser for one line: Parser::new(source).parse(), then evaluate().
InitParse == InitWith({Parser_new(source) : source \in ParseSources}, {Tokeniser_new(<< >>)})

NextParse ==
    \/ ParseNew
    \/ Evaluate

SpecParse == InitParse /\ [][NextParse]_vars

\* A tokeniser on its own, asked for token after token.
InitTok == InitWith({Parser_new(<< >>)}, {Tokeniser_new(source) : source \in TokSources})

NextTok == NextToken

SpecTok == InitTok /\ [][NextTok]_vars

----------------------------------------------------------------------------
(* The properties *)

Source == parser.tokeniser.source

LastCall == history[Len(history)]

\* parse() has returned to the caller, who may have evaluated the tree since.
Parsed == LastCall \in {"parse", "evaluate"}

Unspaced(s) == SelectSeq(s, LAMBDA c : ~is_whitespace(c))

Lit(c) == IntLiteral(<<c>>)

Exactly(sign, n) == <<[k |-> "num", sign |-> sign, n |-> n, d |-> 1, exact |-> TRUE]>>

\* C1: Parser::parse groups parenthesised sub-expressions first, then unary
\* minus (on the single entity after it, and stacking), then Mult/Div, then
\* Add/Sub: the tree of a sentence of the grammar, written back with
\* parentheses only where these rules ask for them, is the sentence;
\* a + b * c is BinOp(a, BinOp(b, c, Mult), Add), (a + b) * c is
\* BinOp(BinOp(a, b, Add), c, Mult), and they evaluate to 14 and 20 for
\* 2, 3, 4; --3 evaluates to 3 and -2 * 3 to -6.
Precedence ==
    Parsed =>
        /\ Source \in GrammarSources =>
             /\ result[1].ok
             /\ Unparse(result[1].node, 1) = Source
        /\ Unspaced(Source) = <<"2", "+", "3", "*", "4">> =>
             /\ result[1] = [ok |-> TRUE,
                    node |-> BinOp(Lit("2"), BinOp(Lit("3"), Lit("4"), "Mult"), "Add")]
             /\ LastCall = "evaluate" => answer = Exactly(1, 14)
        /\ Unspaced(Source) = <<"(", "2", "+", "3", ")", "*", "4">> =>
             /\ result[1] = [ok |-> TRUE,
                    node |-> BinOp(BinOp(Lit("2"), Lit("3"), "Add"), Lit("4"), "Mult")]
             /\ LastCall = "evaluate" => answer = Exactly(1, 20)
        /\ Unspaced(Source) = <<"-", "-", "3">> =>
             /\ result[1] = [ok |-> TRUE,
                    node |-> UnaryOp(UnaryOp(Lit("3"), "Sub"), "Sub")]
             /\ LastCall = "evaluate" => answer = Exactly(1, 3)
        /\ Unspaced(Source) = <<"-", "2", "*", "3">> =>
             /\ result[1] = [ok |-> TRUE,
                    node |-> BinOp(UnaryOp(Lit("2"), "Sub"), Lit("3"), "Mult")]
             /\ LastCall = "evaluate" => answer = Exactly(-1, 6)

PrecedenceWitness ==
    /\ LastCall = "evaluate"
    /\ Source = <<"(", "2", " ", "+", " ", "3", ")", " ", "*", " ", "4">>
    /\ answer = Exactly(1, 20)

\* A chain: single-digit operands joined by the operators of one tier.
IsChain(s) ==
    /\ Len(s) >= 3
    /\ Len(s) % 2 = 1
    /\ \A i \in 1..Len(s) : i % 2 = 1 => s[i] \in AsciiDigits
    /\ \/ \A i \in 1..Len(s) : i % 2 = 0 => s[i] \in {"+", "-"}
       \/ \A i \in 1..Len(s) : i % 2 = 0 => s[i] \in {"*", "/"}

RECURSIVE LeftFold(_, _)
\* The tree of the first n operands of a chain: the tree of the chain before
\* the last of them on the left, that one operand on the right.
LeftFold(s, n) ==
    IF n = 1 THEN Lit(s[1])
    ELSE BinOp(LeftFold(s, n - 1), Lit(s[2 * n - 1]), single_char_kind(s[2 * n - 2]))

\* C2: for a chain of n >= 2 operands joined by operators of one tier,
\* Parser::parse returns the tree in which each BinOp's left child is the tree
\* of the whole chain before it and its right child the single next operand;
\* 8 - 3 - 2 evaluates to 3.
LeftAssociative ==
    Parsed =>
        /\ IsChain(Source) =>
             result[1] = [ok |-> TRUE, node |-> LeftFold(Source, (Len(Source) + 1) \div 2)]
        /\ Unspaced(Source) = <<"8", "-", "3", "-", "2">> =>
             /\ result[1] = [ok |-> TRUE,
                    node |-> BinOp(BinOp(Lit("8"), Lit("3"), "Sub"), Lit("2"), "Sub")]
             /\ LastCall = "evaluate" => answer = Exactly(1, 3)

LeftAssociativeWitness ==
    /\ LastCall = "evaluate"
    /\ Source = <<"8", " ", "-", " ", "3", " ", "-", " ", "2">>
    /\ result[1].node.left.type = "BinOp"
    /\ answer = Exactly(1, 3)

RECURSIVE Leaves(_)
Leaves(node) ==
    CASE node.type = "BinOp" -> Leaves(node.left) \cup Leaves(node.right)
      [] node.type = "UnaryOp" -> Leaves(node.right)
      [] OTHER -> {node}

IsDigitRun(s) == Len(s) > 0 /\ \A i \in 1..Len(s) : s[i] \in AsciiDigits

WellFormed(leaf) ==
    IF leaf.type = "IntLiteral" THEN IsDigitRun(leaf.value)
    ELSE \E i \in 1..Len(leaf.value) :
            /\ leaf.value[i] = "."
            /\ IsDigitRun(SubSeq(leaf.value, 1, i - 1))
            /\ IsDigitRun(SubSeq(leaf.value, i + 1, Len(leaf.value)))

\* C3: every IntLiteral value the tokeniser emits is a non-empty run of the
\* digits 0-9 and every FloatLiteral value such a run, one '.', and another
\* such run; evaluate() on a tree returned by Parser::parse never reaches the
\* failing branch of parse::<f32>().unwrap().
LiteralsEvaluate ==
    /\ Parsed /\ result[1].ok => \A leaf \in Leaves(result[1].node) : WellFormed(leaf)
    /\ answer # <<Panic>>

\* C4: parse() called right after set_source(s), whatever was called on the
\* parser before, returns what Parser::new(s).parse() returns: the same Ok
\* tree or the same Err message.
HistoryIndependent ==
    history = <<"set_source", "parse">> =>
        result = <<Returned(parse(Parser_new(Source)))>>

\* The parse before left its lookahead behind, and the parse of the new source
\* failed on its first token as a new parser's does.
HistoryIndependentWitness ==
    /\ history = <<"set_source", "parse">>
    /\ result = <<[ok |-> FALSE, msg |-> UnrecognisedChar(".", 0)]>>
    /\ parser.current_token.kind = "RParen"

RECURSIVE AtEntity(_)
\* A text after which the parser stands at an entity: nothing, or an opening
\* parenthesis, a unary minus, a blank, or an operand and a binary operator,
\* each followed by such a text.
AtEntity(s) ==
    \/ s = << >>
    \/ Len(s) >= 1 /\ s[1] \in {"(", "-", " "} /\ AtEntity(Tail(s))
    \/ /\ Len(s) >= 2
       /\ s[1] \in AsciiDigits
       /\ s[2] \in {"+", "-", "*", "/"}
       /\ AtEntity(SubSeq(s, 3, Len(s)))

\* The parser with the '(' at offset i of source as its lookahead.
AtParen(source, i) ==
    [tokeniser |-> [source |-> source, char_pos |-> i + 1],
     current_token |-> Token("LParen", None, i)]

\* The expr after the '(' at offset i of source.
ExprAfterParen(source, i) == then_expr(eat(AtParen(source, i), "LParen"))

DigitRunEnd(s) ==
    CHOOSE k \in 0..Len(s) :
        /\ \A i \in 1..k : s[i] \in AsciiDigits
        /\ k = Len(s) \/ s[k + 1] \notin AsciiDigits

\* C6: a digit run followed by '.' and then by no digit (or by the end of the
\* input) makes next_token return Err whose message names the digit run with
\* its '.' and a position, never a FloatLiteral, and the parse that asked for
\* the token returns Err and no tree.
MalformedDecimal ==
    ( /\ Parsed
      /\ DigitRunEnd(Source) > 0
      /\ DigitRunEnd(Source) < Len(Source)
      /\ Source[DigitRunEnd(Source) + 1] = "."
      /\ \/ DigitRunEnd(Source) + 1 = Len(Source)
         \/ Source[DigitRunEnd(Source) + 2] \notin AsciiDigits )
    => /\ ~result[1].ok
       /\ result[1].msg.err = "Unfinished FloatLiteral"
       /\ result[1].msg.literal = SubSeq(Source, 1, DigitRunEnd(Source) + 1)
       /\ result[1].msg.position \in 0..Len(Source)

SyntaxError ==
    /\ LastCall = "parse"
    /\ ~result[1].ok
    /\ result[1].msg.err \in {"Expected kind", "Unexpected token"}

\* The token is the one that starts at its pos in the source.
StartsAtPos(token, source) ==
    IF token.kind = "EOF"
    THEN token.pos >= Len(source) \/ source[token.pos + 1] = NUL
    ELSE /\ token.pos < Len(source)
         /\ source[token.pos + 1] \in {"+", "-", "/", "*", "(", ")"}
         /\ single_char_kind(source[token.pos + 1]) = token.kind

\* The kinds and the positions a message prints.
KindsIn(msg) ==
    IF msg.err = "Expected kind" THEN {msg.got} ELSE {msg.token.kind}

PositionsIn(msg) ==
    IF msg.err = "Expected kind" THEN {} ELSE {msg.token.pos}

\* C7 as stated: every syntax error returned by Parser::parse, from eat or
\* from entity, carries both the kind of the lookahead token and the source
\* position of that token.
SyntaxErrorsCarryKindAndPosition ==
    SyntaxError =>
        /\ parser.current_token.kind \in KindsIn(result[1].msg)
        /\ parser.current_token.pos \in PositionsIn(result[1].msg)

\* C7 as amended: every syntax error carries the kind of the lookahead token;
\* an error of entity prints the whole token, with the position it starts at,
\* and the tokeniser's cursor, while an error of eat prints the expected and
\* the found kind and no position.
SyntaxErrorsCarryKind ==
    SyntaxError =>
        /\ parser.current_token.kind \in KindsIn(result[1].msg)
        /\ result[1].msg.err = "Unexpected token" =>
             /\ result[1].msg.token = parser.current_token
             /\ StartsAtPos(result[1].msg.token, Source)
             /\ result[1].msg.pos = parser.tokeniser.char_pos
        /\ result[1].msg.err = "Expected kind" =>
             /\ result[1].msg.expected # result[1].msg.got
             /\ PositionsIn(result[1].msg) = {}

SyntaxErrorsCarryKindWitness ==
    /\ SyntaxError
    /\ result[1].msg.err = "Unexpected token"
    /\ result[1].msg.token = Token("RParen", None, 2)
    /\ result[1].msg.pos = 3

\* The entity after a leading '+' of the source.
EntityAfterPlus ==
    then_entity(eat([tokeniser |-> [source |-> Source, char_pos |-> 1],
                     current_token |-> Token("Add", None, 0)], "Add"))

\* C8: +x, an Add token at an entity position, parses, and its tree
\* evaluates to what the tree of the entity x evaluates to.
UnaryPlusIsNoOp ==
    ( /\ Parsed
      /\ Len(Source) >= 1
      /\ Source[1] = "+"
      /\ EntityAfterPlus.ok )
    => /\ result[1].ok
       /\ evaluate(result[1].node) = evaluate(EntityAfterPlus.node)

\* C9: a call of next_token, also after EOF or after a lexical error, leaves
\* char_pos no smaller than it was and no greater than the number of
\* characters of the source.
CursorInvariant ==
    [][ /\ tokeniser'.char_pos >= tokeniser.char_pos
        /\ tokeniser'.char_pos <= Len(tokeniser'.source) ]_vars

CursorInvariantWitness ==
    /\ token_result # << >>
    /\ ~token_result[1].ok
    /\ tokeniser.char_pos = Len(tokeniser.source)
    /\ tokeniser.char_pos > 1

\* C10: when Parser::parse returns Ok(tree), the lookahead left in
\* current_token is EOF: tokens left over after a complete expr yield Err.
WholeInputConsumed ==
    Parsed /\ result[1].ok => parser.current_token.kind = "EOF"

====
